---------------------------- MODULE Spec2Model ----------------------------
(***************************************************************************)
(* A model of the crowd-monitoring orchestrator of src/app.py:             *)
(* CrowdMonitoringSystem (model loader, process_image, process_video,      *)
(* stop_processing) and the socket handlers that drive it.  Every request  *)
(* of the server runs on a thread of its own; the threads share the one    *)
(* global monitor_system object.                                           *)
(***************************************************************************)
EXTENDS Integers, FiniteSets, Sequences, TLC

(* ------------------------------ bounds --------------------------------- *)

\* The longest input video, in frames that can actually be read.
MaxFrames == 10

\* The most person / face detections a detector reports for one frame.
MaxPersons == 1

MaxFaces == 1

(* ------------------------- program constants --------------------------- *)

\* process_video runs the detectors on every 10th frame (frame_num % 10).
DetectEvery == 10

\* time.sleep(0.033) at the end of every iteration of the loop, in ms.
SleepMs == 33

\* The time the two detectors take on one frame, in ms: next to nothing, or a
\* second.
DetectorMs == {0, 1000}

\* progress = int((frame_num / frame_count) * 100) for frame_count > 0.  The
\* float expression equals the integer quotient for the frame numbers and
\* frame counts of this model (it is one less for some pairs, as 23 / 5).
Progress(fn, fc) == (100 * fn) \div fc

\* The request / background threads that run concurrently: two, so that every
\* pair of requests can interleave.
Threads == {1, 2}

\* Values cap.get(CAP_PROP_FRAME_COUNT) reports: a container without a frame
\* count reports 0; otherwise the number of frames of the file.
FrameCounts == {0, MaxFrames}

\* What the two detectors report for one frame: <<persons, faces>>.
DetectionCounts == {<<0, 0>>, <<MaxPersons, MaxFaces>>}

(* ------------------------------- state --------------------------------- *)

VARIABLES
    is_monitoring,      \* CrowdMonitoringSystem.is_monitoring
    is_initializing,    \* CrowdMonitoringSystem.is_initializing
    models_loaded,      \* CrowdMonitoringSystem.models_loaded
    video_processor,    \* TRUE when self.video_processor is constructed
    yolo_detector,      \* TRUE when self.yolo_detector is constructed
    face_detector,      \* TRUE when self.face_detector is constructed
    lock,               \* holder of _initialization_lock, 0 when free
    stats,              \* CrowdMonitoringSystem.stats, the current snapshot
    pc,                 \* position of each thread
    retval,             \* what the thread's call returned: "none", "True", "False"
    message,            \* the 'message' of a process_video result
    status_evt,         \* last system_status event the thread's call emitted
    frame_num,          \* process_video's local frame_num
    frame_count,        \* process_video's local frame_count
    ret,                \* process_video's local ret of the last cap.read()
    cap,                \* process_video's capture handle: "none", "open", "released"
    out,                \* process_video's writer handle: "none", "open", "released"
    detections,         \* process_video's locals person_detections, face_detections (their lengths)
    detection_update,   \* payload of the last detection_update event the run emitted
    loading_progress,   \* payload of the last loading_progress event the call emitted
    drawn,              \* boxes drawn on the frame last written to the output: <<persons, faces>>
    slept,              \* time that has passed since the run's last detection_update, in ms
    gap,                \* time between the run's last two detection_update events, in ms; -1 for none
    video_progress,     \* payload of the last video_progress event the run emitted
    total_frames,       \* total_frames of the result process_video returned
    file_frames,        \* the number of frames the input video actually holds
    up,                 \* an upload request: its file name and what the handler did
    mx,                 \* metrics aggregator: the counts given and the snapshot built
    vp,                 \* a VideoProcessor object: cap, is_running, frame_ready, current_frame
    vp_call,            \* observation: the last call on the VideoProcessor and what it did
    det,                \* a detector call: the frame, what the model reports, the result
    stopped,            \* observation: stop_processing was called since the run was started
    stop_was            \* observation: what the last stop_processing call found

sysvars == <<is_monitoring, is_initializing, models_loaded, video_processor,
             yolo_detector, face_detector, stats>>

loadervars == <<is_initializing, models_loaded, video_processor, yolo_detector,
                face_detector, lock, status_evt, loading_progress>>

\* What a run of process_video has let out: drawing, publication, progress, result.
runobs == <<drawn, slept, gap, video_progress, total_frames>>

videovars == <<frame_num, frame_count, ret, cap, out, detections, detection_update,
               runobs>>

\* The orchestrator and its threads.
corevars == <<is_monitoring, is_initializing, models_loaded, video_processor,
              yolo_detector, face_detector, lock, stats, pc, retval, message,
              status_evt, frame_num, frame_count, ret, cap, out, detections,
              detection_update, loading_progress, runobs, stopped, stop_was>>

\* The components that are exercised on their own.
auxvars == <<mx, vp, vp_call, det, up, file_frames>>

vars == <<corevars, auxvars>>

InitSeqPcs == {"init_import", "init_vp", "init_yolo", "init_face",
               "init_ready", "init_commit", "init_finish"}

ConstructPcs == {"init_vp", "init_yolo", "init_face"}

LoopPcs == {"pv_while", "pv_read", "pv_detect", "pv_emit"}

VideoPcs == {"pv_entry", "pv_setmon"} \cup LoopPcs \cup {"pv_release"}

(* ------------------------- metrics aggregator -------------------------- *)

\* The table with its bounds read as exclusive.
calculate_crowd_density_exclusive(person_count) ==
    IF person_count = 0 THEN "EMPTY"
    ELSE IF person_count < 2 THEN "LOW"
    ELSE IF person_count < 5 THEN "MEDIUM"
    ELSE "HIGH"

calculate_crowd_density(person_count) ==
    IF person_count = 0 THEN "EMPTY"
    ELSE IF person_count <= 2 THEN "LOW"
    ELSE IF person_count <= 5 THEN "MEDIUM"
    ELSE "HIGH"

\* The score without the weighted face count.
calculate_alert_level_persons_only(person_count, face_count) ==
    IF person_count <= 3 THEN "NORMAL"
    ELSE IF person_count <= 6 THEN "CAUTION"
    ELSE "ALERT"

\* total = person_count + (face_count * 0.3), compared with 3 and 6.  The
\* comparisons are made in tenths, 10 * total against 30 and 60: in double
\* arithmetic person_count + face_count * 0.3 falls on the same side of 3
\* and of 6 as the exact sum for all counts up to 199 persons and 399 faces.
calculate_alert_level(person_count, face_count) ==
    LET total10 == 10 * person_count + 3 * face_count
    IN  IF total10 = 0 THEN "NORMAL"
        ELSE IF total10 <= 30 THEN "NORMAL"
        ELSE IF total10 <= 60 THEN "CAUTION"
        ELSE "ALERT"

\* A snapshot that takes each count from the other list.
SnapshotSwapped(np, nf, status) ==
    [person_count  |-> nf,
     face_count    |-> np,
     crowd_density |-> calculate_crowd_density(np),
     alert_level   |-> calculate_alert_level(np, nf),
     system_status |-> status]

\* The fields self.stats.update(...) writes from the two detection lists.
Snapshot(np, nf, status) ==
    [person_count  |-> np,
     face_count    |-> nf,
     crowd_density |-> calculate_crowd_density(np),
     alert_level   |-> calculate_alert_level(np, nf),
     system_status |-> status]

InitialStats ==
    [person_count  |-> 0,
     face_count    |-> 0,
     crowd_density |-> "EMPTY",
     alert_level   |-> "NORMAL",
     system_status |-> "Ready"]

\* total_steps = 5
total_steps == 5

\* update_progress(step, total, message): the loading_progress payload, with
\* progress = int((step / total) * 100).
update_progress(step, total) ==
    [step |-> step, total |-> total, progress |-> (100 * step) \div total]

\* No loading_progress event has been emitted.
NoLoading == [step |-> 0, total |-> 0, progress |-> 0]

\* No video_progress event has been emitted.
NoProgress == [progress |-> 0, frame |-> 0, total_frames |-> 0]

\* No detection_update event has been emitted.
NoUpdate ==
    [person_count  |-> 0,
     face_count    |-> 0,
     crowd_density |-> "EMPTY",
     alert_level   |-> "NORMAL",
     system_status |-> "none"]

(* ------------------------------- Init ---------------------------------- *)

\* CrowdMonitoringSystem.__init__, no request under way.
SystemInit ==
    /\ is_monitoring = FALSE
    /\ is_initializing = FALSE
    /\ models_loaded = FALSE
    /\ video_processor = FALSE
    /\ yolo_detector = FALSE
    /\ face_detector = FALSE
    /\ lock = 0
    /\ stats = InitialStats
    /\ pc = [t \in Threads |-> "idle"]
    /\ retval = [t \in Threads |-> "none"]
    /\ message = [t \in Threads |-> ""]
    /\ status_evt = [t \in Threads |-> "none"]
    /\ frame_num = [t \in Threads |-> 0]
    /\ frame_count = [t \in Threads |-> 0]
    /\ ret = [t \in Threads |-> FALSE]
    /\ cap = [t \in Threads |-> "none"]
    /\ out = [t \in Threads |-> "none"]
    /\ detections = [t \in Threads |-> <<0, 0>>]
    /\ detection_update = [t \in Threads |-> NoUpdate]
    /\ loading_progress = [t \in Threads |-> NoLoading]
    /\ drawn = [t \in Threads |-> <<0, 0>>]
    /\ slept = [t \in Threads |-> 0]
    /\ gap = [t \in Threads |-> -1]
    /\ video_progress = [t \in Threads |-> NoProgress]
    /\ total_frames = [t \in Threads |-> 0]
    /\ stopped = [t \in Threads |-> FALSE]
    /\ stop_was = "none"

(* ---------------------------- model loader ----------------------------- *)

\* A thread calls initialize_models() and reaches the `with` statement.
CallInitializeModels(t) ==
    /\ pc[t] = "idle"
    /\ pc' = [pc EXCEPT ![t] = "init_wait"]
    /\ retval' = [retval EXCEPT ![t] = "none"]
    /\ status_evt' = [status_evt EXCEPT ![t] = "none"]
    /\ loading_progress' = [loading_progress EXCEPT ![t] = NoLoading]
    /\ UNCHANGED <<is_monitoring, is_initializing, models_loaded, video_processor,
                   yolo_detector, face_detector, lock, stats, message,
                   videovars, stopped, stop_was>>

\* initialize_models without the lock and without the is_initializing check.
InitEnterNoLock(t) ==
    /\ pc[t] = "init_wait"
    /\ IF models_loaded
       THEN /\ pc' = [pc EXCEPT ![t] = "init_done"]
            /\ retval' = [retval EXCEPT ![t] = "True"]
            /\ UNCHANGED <<is_initializing, lock>>
       ELSE /\ is_initializing' = TRUE
            /\ lock' = t
            /\ pc' = [pc EXCEPT ![t] = "init_import"]
            /\ UNCHANGED retval
    /\ UNCHANGED <<is_monitoring, models_loaded, video_processor, yolo_detector,
                   face_detector, stats, message, status_evt, loading_progress, videovars,
                   stopped, stop_was>>

\* The caller enters the `with self._initialization_lock` block once the lock
\* is free, and runs the two early returns or sets is_initializing.
InitEnter(t) ==
    /\ pc[t] = "init_wait"
    /\ lock = 0
    /\ IF models_loaded
       THEN /\ pc' = [pc EXCEPT ![t] = "init_done"]
            /\ retval' = [retval EXCEPT ![t] = "True"]
            /\ UNCHANGED <<is_initializing, lock>>
       ELSE IF is_initializing
       THEN /\ pc' = [pc EXCEPT ![t] = "init_done"]
            /\ retval' = [retval EXCEPT ![t] = "False"]
            /\ UNCHANGED <<is_initializing, lock>>
       ELSE /\ is_initializing' = TRUE
            /\ lock' = t
            /\ pc' = [pc EXCEPT ![t] = "init_import"]
            /\ UNCHANGED retval
    /\ UNCHANGED <<is_monitoring, models_loaded, video_processor, yolo_detector,
                   face_detector, stats, message, status_evt, loading_progress, videovars,
                   stopped, stop_was>>

\* Step 1: load_detection_modules().  It swallows the import error and returns
\* None, and initialize_models returns False from inside the try block.
InitImport(t) ==
    /\ pc[t] = "init_import"
    /\ loading_progress' = [loading_progress EXCEPT ![t] = update_progress(1, total_steps)]
    /\ \E ok \in BOOLEAN :
         IF ok
         THEN /\ pc' = [pc EXCEPT ![t] = "init_vp"]
              /\ UNCHANGED <<retval, lock>>
         ELSE /\ pc' = [pc EXCEPT ![t] = "init_done"]
              /\ retval' = [retval EXCEPT ![t] = "False"]
              /\ lock' = 0
    /\ UNCHANGED <<is_monitoring, is_initializing, models_loaded, video_processor,
                   yolo_detector, face_detector, stats, message, status_evt,
                   videovars, stopped, stop_was>>

\* The except handler of initialize_models: emit system_status 'error', clear
\* both flags, return False (leaving the with block).
InitExcept(t) ==
    /\ status_evt' = [status_evt EXCEPT ![t] = "error"]
    /\ is_initializing' = FALSE
    /\ models_loaded' = FALSE
    /\ retval' = [retval EXCEPT ![t] = "False"]
    /\ lock' = 0
    /\ pc' = [pc EXCEPT ![t] = "init_done"]

\* Step 2: self.video_processor = VideoProcessor()
InitVideoProcessor(t) ==
    /\ pc[t] = "init_vp"
    /\ loading_progress' = [loading_progress EXCEPT ![t] = update_progress(2, total_steps)]
    /\ \E ok \in BOOLEAN :
         IF ok
         THEN /\ video_processor' = TRUE
              /\ pc' = [pc EXCEPT ![t] = "init_yolo"]
              /\ UNCHANGED <<status_evt, is_initializing, models_loaded, retval, lock>>
         ELSE /\ InitExcept(t)
              /\ UNCHANGED video_processor
    /\ UNCHANGED <<is_monitoring, yolo_detector, face_detector, stats, message,
                   videovars, stopped, stop_was>>

\* Step 3: self.yolo_detector = YOLODetector(...); the constructor re-raises.
InitYolo(t) ==
    /\ pc[t] = "init_yolo"
    /\ loading_progress' = [loading_progress EXCEPT ![t] = update_progress(3, total_steps)]
    /\ \E ok \in BOOLEAN :
         IF ok
         THEN /\ yolo_detector' = TRUE
              /\ pc' = [pc EXCEPT ![t] = "init_face"]
              /\ UNCHANGED <<status_evt, is_initializing, models_loaded, retval, lock>>
         ELSE /\ InitExcept(t)
              /\ UNCHANGED yolo_detector
    /\ UNCHANGED <<is_monitoring, video_processor, face_detector, stats, message,
                   videovars, stopped, stop_was>>

\* Step 4: self.face_detector = FaceDetector(); the constructor re-raises.
InitFace(t) ==
    /\ pc[t] = "init_face"
    /\ loading_progress' = [loading_progress EXCEPT ![t] = update_progress(4, total_steps)]
    /\ \E ok \in BOOLEAN :
         IF ok
         THEN /\ face_detector' = TRUE
              /\ pc' = [pc EXCEPT ![t] = "init_ready"]
              /\ UNCHANGED <<status_evt, is_initializing, models_loaded, retval, lock>>
         ELSE /\ InitExcept(t)
              /\ UNCHANGED face_detector
    /\ UNCHANGED <<is_monitoring, video_processor, yolo_detector, stats, message,
                   videovars, stopped, stop_was>>

\* Step 5: the last progress event and the system_status 'ready' event.
InitReady(t) ==
    /\ pc[t] = "init_ready"
    /\ loading_progress' = [loading_progress EXCEPT ![t] = update_progress(5, total_steps)]
    /\ status_evt' = [status_evt EXCEPT ![t] = "ready"]
    /\ pc' = [pc EXCEPT ![t] = "init_commit"]
    /\ UNCHANGED <<is_monitoring, is_initializing, models_loaded, video_processor,
                   yolo_detector, face_detector, lock, stats, retval, message,
                   videovars, stopped, stop_was>>

\* self.models_loaded = True
InitCommit(t) ==
    /\ pc[t] = "init_commit"
    /\ models_loaded' = TRUE
    /\ pc' = [pc EXCEPT ![t] = "init_finish"]
    /\ UNCHANGED <<is_monitoring, is_initializing, video_processor, yolo_detector,
                   face_detector, lock, stats, retval, message, status_evt, loading_progress,
                   videovars, stopped, stop_was>>

\* self.is_initializing = False; start the registration thread; return True.
\* threading.Thread(...).start() is inside the try block: when the thread
\* cannot be started the except handler runs after models_loaded was set.
InitFinish(t) ==
    /\ pc[t] = "init_finish"
    /\ \E started \in BOOLEAN :
         IF started
         THEN /\ is_initializing' = FALSE
              /\ retval' = [retval EXCEPT ![t] = "True"]
              /\ lock' = 0
              /\ pc' = [pc EXCEPT ![t] = "init_done"]
              /\ UNCHANGED <<models_loaded, status_evt>>
         ELSE InitExcept(t)
    /\ UNCHANGED <<is_monitoring, video_processor, yolo_detector, face_detector,
                   stats, message, loading_progress, videovars, stopped, stop_was>>

(* ----------------------------- process_image ---------------------------- *)

\* process_image(image_path) on a request thread, models loaded and the image
\* readable: both detectors run and self.stats.update(...) writes the snapshot.
\* (Its two failure returns, 'Models not loaded' and 'Could not load image',
\* change nothing.)
ProcessImage ==
    /\ models_loaded
    /\ \E d \in DetectionCounts :
         stats' = Snapshot(d[1], d[2], "Image Processed")
    /\ UNCHANGED <<is_monitoring, is_initializing, models_loaded, video_processor,
                   yolo_detector, face_detector, lock, pc, retval, message,
                   status_evt, loading_progress, videovars, stopped, stop_was>>

(* ----------------------------- process_video ---------------------------- *)

\* handle_start_video_processing: a background thread is created and started
\* on process_video_background, whatever the state of the system.
StartVideoProcessing(t) ==
    /\ pc[t] = "idle"
    /\ pc' = [pc EXCEPT ![t] = "pv_entry"]
    /\ retval' = [retval EXCEPT ![t] = "none"]
    /\ message' = [message EXCEPT ![t] = ""]
    /\ stopped' = [stopped EXCEPT ![t] = FALSE]
    /\ UNCHANGED <<is_monitoring, loadervars, stats, videovars, stop_was>>

\* process_video up to the creation of the writer: the models_loaded check,
\* cv2.VideoCapture(video_path), the video properties, cv2.VideoWriter(...).
PVBegin(t) ==
    /\ pc[t] = "pv_entry"
    /\ IF ~models_loaded
       THEN /\ pc' = [pc EXCEPT ![t] = "pv_done"]
            /\ retval' = [retval EXCEPT ![t] = "False"]
            /\ message' = [message EXCEPT ![t] = "Models not loaded"]
            /\ UNCHANGED <<frame_count, cap, out>>
       ELSE \E opened \in BOOLEAN :
              IF ~opened
              THEN /\ pc' = [pc EXCEPT ![t] = "pv_done"]
                   /\ retval' = [retval EXCEPT ![t] = "False"]
                   /\ message' = [message EXCEPT ![t] = "Could not open video"]
                   /\ UNCHANGED <<frame_count, cap, out>>
              ELSE \E fc \in FrameCounts :
                   /\ frame_count' = [frame_count EXCEPT ![t] = fc]
                   /\ cap' = [cap EXCEPT ![t] = "open"]
                   /\ out' = [out EXCEPT ![t] = "open"]
                   /\ pc' = [pc EXCEPT ![t] = "pv_setmon"]
                   /\ UNCHANGED <<retval, message>>
    /\ UNCHANGED <<is_monitoring, loadervars, stats, frame_num, ret, detections,
                   detection_update, runobs, stopped, stop_was>>

\* self.is_monitoring = True; frame_num = 0
PVSetMonitoring(t) ==
    /\ pc[t] = "pv_setmon"
    /\ is_monitoring' = TRUE
    /\ frame_num' = [frame_num EXCEPT ![t] = 0]
    /\ pc' = [pc EXCEPT ![t] = "pv_while"]
    /\ UNCHANGED <<loadervars, stats, retval, message, frame_count, ret, cap, out,
                   detections, detection_update, runobs, stopped, stop_was>>

\* while self.is_monitoring:
PVWhile(t) ==
    /\ pc[t] = "pv_while"
    /\ pc' = [pc EXCEPT ![t] = IF is_monitoring THEN "pv_read" ELSE "pv_release"]
    /\ UNCHANGED <<is_monitoring, loadervars, stats, retval, message, videovars,
                   stopped, stop_was>>

\* A loop that skips the iteration of a failed read and carries on.
AfterFailedReadContinue == "pv_while"

\* Where the loop goes after a failed cap.read(): `if not ret: break`.
AfterFailedRead == "pv_release"

\* ret, frame = cap.read(); if not ret: break; frame_num += 1.  A frame that is
\* not a 10th one is drawn, written to the output and the loop sleeps; a 10th
\* frame goes on to the detection cycle.  The frame that is not a 10th one
\* gets the boxes of the empty list (`... if frame_num % 10 == 0 else []`).
\* The file holds file_frames frames; a read can also fail before its end.
PVRead(t) ==
    /\ pc[t] = "pv_read"
    /\ \E r \in (IF frame_num[t] < file_frames THEN BOOLEAN ELSE {FALSE}) :
         /\ ret' = [ret EXCEPT ![t] = r]
         /\ IF ~r
            THEN /\ pc' = [pc EXCEPT ![t] = AfterFailedRead]
                 /\ UNCHANGED <<frame_num, drawn, slept>>
            ELSE /\ frame_num' = [frame_num EXCEPT ![t] = @ + 1]
                 /\ IF (frame_num[t] + 1) % DetectEvery = 0
                    THEN /\ pc' = [pc EXCEPT ![t] = "pv_detect"]
                         /\ UNCHANGED <<drawn, slept>>
                    ELSE /\ drawn' = [drawn EXCEPT ![t] = <<0, 0>>]
                         /\ slept' = [slept EXCEPT ![t] = @ + SleepMs]
                         /\ pc' = [pc EXCEPT ![t] = "pv_while"]
    /\ UNCHANGED <<is_monitoring, loadervars, stats, retval, message, frame_count,
                   cap, out, detections, detection_update, gap, video_progress,
                   total_frames, stopped, stop_was>>

\* The except handler of process_video: return success False with str(e).
\* is_monitoring is left as it is and neither handle is released by the
\* handler; the handles are locals, so the interpreter may or may not have
\* finalized them by the time the result is delivered.
PVExcept(t, msg) ==
    /\ pc' = [pc EXCEPT ![t] = "pv_done"]
    /\ retval' = [retval EXCEPT ![t] = "False"]
    /\ message' = [message EXCEPT ![t] = msg]
    /\ \E h \in {"open", "released"} :
         /\ cap' = [cap EXCEPT ![t] = h]
         /\ out' = [out EXCEPT ![t] = h]

\* The detection cycle of a 10th frame, up to the snapshot: both detectors,
\* video_detection, progress = int((frame_num / frame_count) * 100)
\* (ZeroDivisionError when the reported frame count is 0), self.stats.update(...).
\* The two detectors take ms milliseconds; the video_progress event carries
\* frame_num, frame_count and the progress computed from them.
PVDetect(t) ==
    /\ pc[t] = "pv_detect"
    /\ \E d \in DetectionCounts, ms \in DetectorMs :
         /\ detections' = [detections EXCEPT ![t] = d]
         /\ slept' = [slept EXCEPT ![t] = @ + ms]
         /\ IF frame_count[t] = 0
            THEN /\ PVExcept(t, "division by zero")
                 /\ UNCHANGED <<stats, video_progress>>
            ELSE /\ video_progress' = [video_progress EXCEPT ![t] =
                        [progress     |-> Progress(frame_num[t], frame_count[t]),
                         frame        |-> frame_num[t],
                         total_frames |-> frame_count[t]]]
                 /\ stats' = Snapshot(d[1], d[2], "Processing Video")
                 /\ pc' = [pc EXCEPT ![t] = "pv_emit"]
                 /\ UNCHANGED <<retval, message, cap, out>>
    /\ UNCHANGED <<is_monitoring, loadervars, frame_num, frame_count, ret,
                   detection_update, drawn, gap, total_frames, stopped, stop_was>>

\* socketio.emit('detection_update', self.stats): the payload is the shared
\* snapshot as it is when the event is emitted.  Then the frame is drawn and
\* written to the output and the loop sleeps.
\* The frame of a detection cycle gets the boxes of the cycle's detections.
PVEmit(t) ==
    /\ pc[t] = "pv_emit"
    /\ detection_update' = [detection_update EXCEPT ![t] = stats]
    /\ gap' = [gap EXCEPT ![t] = IF detection_update[t] # NoUpdate THEN slept[t] ELSE @]
    /\ drawn' = [drawn EXCEPT ![t] = detections[t]]
    /\ slept' = [slept EXCEPT ![t] = SleepMs]
    /\ pc' = [pc EXCEPT ![t] = "pv_while"]
    /\ UNCHANGED <<is_monitoring, loadervars, stats, retval, message, frame_num,
                   frame_count, ret, cap, out, detections, video_progress, total_frames, stopped, stop_was>>

\* After the loop: cap.release(); out.release(); return success True.
PVRelease(t) ==
    /\ pc[t] = "pv_release"
    /\ cap' = [cap EXCEPT ![t] = "released"]
    /\ out' = [out EXCEPT ![t] = "released"]
    /\ retval' = [retval EXCEPT ![t] = "True"]
    /\ message' = [message EXCEPT ![t] = "Video processed successfully"]
    /\ total_frames' = [total_frames EXCEPT ![t] = frame_count[t]]
    /\ pc' = [pc EXCEPT ![t] = "pv_done"]
    /\ UNCHANGED <<is_monitoring, loadervars, stats, frame_num, frame_count, ret,
                   detections, detection_update, drawn, slept, gap, video_progress,
                   stopped, stop_was>>

(* ---------------------------- stop_processing --------------------------- *)

\* The spec's stop(): also resets the snapshot.
StopProcessingReset ==
    /\ is_monitoring' = FALSE
    /\ stats' = InitialStats
    /\ stopped' = [t \in Threads |-> IF pc[t] \in VideoPcs THEN TRUE ELSE stopped[t]]
    /\ stop_was' = IF is_monitoring THEN "running" ELSE "idle"
    /\ UNCHANGED <<loadervars, pc, retval, message, videovars>>

\* handle_stop_processing -> stop_processing(): self.is_monitoring = False.
StopProcessing ==
    /\ is_monitoring' = FALSE
    /\ stopped' = [t \in Threads |-> IF pc[t] \in VideoPcs THEN TRUE ELSE stopped[t]]
    /\ stop_was' = IF is_monitoring THEN "running" ELSE "idle"
    /\ UNCHANGED <<loadervars, stats, pc, retval, message, videovars>>

(* ------------------------------ the system ------------------------------ *)

\* The caller has taken the result of initialize_models / process_video; the
\* thread is free for the next request.
Return(t) ==
    /\ pc[t] \in {"init_done", "pv_done"}
    /\ pc' = [pc EXCEPT ![t] = "idle"]
    /\ retval' = [retval EXCEPT ![t] = "none"]
    /\ message' = [message EXCEPT ![t] = ""]
    /\ status_evt' = [status_evt EXCEPT ![t] = "none"]
    /\ frame_num' = [frame_num EXCEPT ![t] = 0]
    /\ frame_count' = [frame_count EXCEPT ![t] = 0]
    /\ ret' = [ret EXCEPT ![t] = FALSE]
    /\ cap' = [cap EXCEPT ![t] = "none"]
    /\ out' = [out EXCEPT ![t] = "none"]
    /\ detections' = [detections EXCEPT ![t] = <<0, 0>>]
    /\ detection_update' = [detection_update EXCEPT ![t] = NoUpdate]
    /\ loading_progress' = [loading_progress EXCEPT ![t] = NoLoading]
    /\ drawn' = [drawn EXCEPT ![t] = <<0, 0>>]
    /\ slept' = [slept EXCEPT ![t] = 0]
    /\ gap' = [gap EXCEPT ![t] = -1]
    /\ video_progress' = [video_progress EXCEPT ![t] = NoProgress]
    /\ total_frames' = [total_frames EXCEPT ![t] = 0]
    /\ stopped' = [stopped EXCEPT ![t] = FALSE]
    /\ UNCHANGED <<is_monitoring, is_initializing, models_loaded, video_processor,
                   yolo_detector, face_detector, lock, stats, stop_was>>

\* The requests and threads of the server.
SystemNext ==
    \/ \E t \in Threads : CallInitializeModels(t)
    \/ \E t \in Threads : InitEnter(t)
    \/ \E t \in Threads : InitImport(t)
    \/ \E t \in Threads : InitVideoProcessor(t)
    \/ \E t \in Threads : InitYolo(t)
    \/ \E t \in Threads : InitFace(t)
    \/ \E t \in Threads : InitReady(t)
    \/ \E t \in Threads : InitCommit(t)
    \/ \E t \in Threads : InitFinish(t)
    \/ ProcessImage
    \/ \E t \in Threads : StartVideoProcessing(t)
    \/ \E t \in Threads : PVBegin(t)
    \/ \E t \in Threads : PVSetMonitoring(t)
    \/ \E t \in Threads : PVWhile(t)
    \/ \E t \in Threads : PVRead(t)
    \/ \E t \in Threads : PVDetect(t)
    \/ \E t \in Threads : PVEmit(t)
    \/ \E t \in Threads : PVRelease(t)
    \/ StopProcessing
    \/ \E t \in Threads : Return(t)

(* ---------------------------- VideoProcessor ---------------------------- *)

\* The frames the device can deliver.
Frames == {1, 2}

\* len(backends_to_try)
NumBackends == 3

\* for attempt in range(10)
TestAttempts == 10

\* for retry in range(3)
Retries == 3

\* The reads one get_frame call can make: the first and the retries.
StreamLen == Retries + 1

\* Where the first valid test read of start_capture can fall: the first, the
\* last the loop makes, or later than the loop reads.
FirstValidReads == {1, TestAttempts, TestAttempts + 1}

\* VideoProcessor.__init__: no handle, not running, no frame (0 is None).
VPNew == [cap |-> "none", is_running |-> FALSE, frame_ready |-> FALSE, current_frame |-> 0]

\* What one cap.read() can do: raise, return (False, None), or return True
\* with a frame, frame 0 being None.
ReadOutcomes ==
    {[raises |-> TRUE, ret |-> FALSE, frame |-> 0],
     [raises |-> FALSE, ret |-> FALSE, frame |-> 0]} \cup
    {[raises |-> FALSE, ret |-> TRUE, frame |-> f] : f \in {0} \cup Frames}

\* A read stream in which nothing was read.
NoReads == [i \in 1..StreamLen |-> [raises |-> FALSE, ret |-> FALSE, frame |-> 0]]

\* No backend asked.
NoOpens == [i \in 1..(NumBackends + 1) |-> FALSE]

\* No call made yet on the VideoProcessor.
VPNoCall ==
    [op |-> "none", prev |-> VPNew, result |-> "none", frame |-> 0, reads |-> 0,
     releases |-> 0, raised |-> FALSE, rd |-> NoReads, opens |-> NoOpens,
     cfg_raises |-> FALSE, good |-> 0, backend |-> 0, tests |-> 0]

\* ret and frame is not None
ReadOk(o) == ~o.raises /\ o.ret /\ o.frame # 0

\* The retry loop of get_frame from its i-th iteration: read number i + 1 of
\* the call; the loop ends on a good read, on an exception, or after the last
\* retry.
RECURSIVE GetFrameRetry(_, _)
GetFrameRetry(rd, i) ==
    LET o == rd[i + 1]
    IN  IF o.raises \/ ReadOk(o) \/ i >= Retries
        THEN [last |-> o, reads |-> i + 1]
        ELSE GetFrameRetry(rd, i + 1)

\* A failed get_frame that also forgets the frame it held.
GetFrameFailedForgets(v, n) ==
    [vp |-> [v EXCEPT !.current_frame = 0], result |-> "None", frame |-> 0,
     reads |-> n, raised |-> FALSE]

\* get_frame after n reads none of which gave a frame, the last one having
\* failed or raised: return None (lines 148-150 and 158-160).
GetFrameFailed(v, n) ==
    [vp |-> v, result |-> "None", frame |-> 0, reads |-> n, raised |-> FALSE]

\* get_frame on processor v when the device answers its reads with rd.
GetFrame(v, rd) ==
    IF ~v.is_running \/ v.cap = "none" \/ v.cap # "open"
    THEN [vp |-> v, result |-> "None", frame |-> 0, reads |-> 0, raised |-> FALSE]
    ELSE LET r == IF rd[1].raises \/ ReadOk(rd[1])
                  THEN [last |-> rd[1], reads |-> 1]
                  ELSE GetFrameRetry(rd, 1)
         IN  IF r.last.raises
             THEN GetFrameFailed(v, r.reads)
             ELSE IF ~ReadOk(r.last)
             THEN GetFrameFailed(v, r.reads)
             ELSE [vp |-> [v EXCEPT !.current_frame = r.last.frame],
                   result |-> "frame", frame |-> r.last.frame, reads |-> r.reads,
                   raised |-> FALSE]

\* The first backend from the i-th on that opens, 0 when none does.
RECURSIVE FirstBackend(_, _)
FirstBackend(opens, i) ==
    IF i > NumBackends THEN 0
    ELSE IF opens[i] THEN i
    ELSE FirstBackend(opens, i + 1)

\* A handler of start_capture that returns False with the processor as it is.
StartCaptureExceptKeeps(v, released, backend, tests) ==
    [vp |-> v, result |-> "False", releases |-> released, backend |-> backend,
     tests |-> tests, raised |-> FALSE]

\* The except branch of start_capture: the handle, if any, is released and
\* forgotten, both flags are cleared, False is returned.
StartCaptureExcept(v, released, backend, tests) ==
    [vp |-> [v EXCEPT !.cap = "none", !.is_running = FALSE, !.frame_ready = FALSE],
     result |-> "False",
     releases |-> released + (IF v.cap # "none" THEN 1 ELSE 0),
     backend |-> backend, tests |-> tests, raised |-> FALSE]

\* start_capture on processor v.  opens[i] tells whether the i-th backend
\* opens the camera (the last entry is the plain cv2.VideoCapture(camera_id)
\* tried after the list), cfg_raises whether configuring or warming up the
\* camera raises, good the first test read that returns a valid frame.
StartCapture(v, opens, cfg_raises, good) ==
    LET b        == FirstBackend(opens, 1)
        failed   == IF b = 0 THEN NumBackends ELSE b - 1
        released == (IF v.cap # "none" THEN 1 ELSE 0) + failed
        backend  == IF b # 0 THEN b
                    ELSE IF opens[NumBackends + 1] THEN NumBackends + 1 ELSE 0
    IN  IF backend = 0
        THEN StartCaptureExcept([v EXCEPT !.cap = "closed"], released, 0, 0)
        ELSE IF cfg_raises
        THEN StartCaptureExcept([v EXCEPT !.cap = "open"], released, backend, 0)
        ELSE IF good <= TestAttempts
        THEN [vp |-> [v EXCEPT !.cap = "open", !.is_running = TRUE,
                               !.frame_ready = TRUE],
              result |-> "True", releases |-> released, backend |-> backend,
              tests |-> good, raised |-> FALSE]
        ELSE StartCaptureExcept([v EXCEPT !.cap = "open"], released, backend,
                                TestAttempts)

\* A stop that releases the handle and keeps holding it.
StopCaptureKeepsHandle(v) ==
    [vp |-> [v EXCEPT !.is_running = FALSE, !.frame_ready = FALSE,
                      !.cap = IF v.cap # "none" THEN "closed" ELSE "none"],
     releases |-> IF v.cap # "none" THEN 1 ELSE 0,
     raised |-> FALSE]

\* stop_capture on processor v.
StopCapture(v) ==
    LET w == [v EXCEPT !.is_running = FALSE, !.frame_ready = FALSE]
    IN  IF w.cap # "none"
        THEN [vp |-> [w EXCEPT !.cap = "none"], releases |-> 1, raised |-> FALSE]
        ELSE [vp |-> w, releases |-> 0, raised |-> FALSE]

\* A call of start_capture.
VPStartCapture ==
    \E opens \in [1..(NumBackends + 1) -> BOOLEAN], cfg_raises \in BOOLEAN,
       good \in FirstValidReads :
        LET r == StartCapture(vp, opens, cfg_raises, good)
        IN  /\ vp' = r.vp
            /\ vp_call' = [VPNoCall EXCEPT !.op = "start", !.prev = vp,
                             !.result = r.result, !.releases = r.releases,
                             !.raised = r.raised, !.opens = opens,
                             !.cfg_raises = cfg_raises, !.good = good,
                             !.backend = r.backend, !.tests = r.tests]
            /\ UNCHANGED <<corevars, mx, det, up, file_frames>>

\* A call of stop_capture.
VPStopCapture ==
    LET r == StopCapture(vp)
    IN  /\ vp' = r.vp
        /\ vp_call' = [VPNoCall EXCEPT !.op = "stop", !.prev = vp,
                         !.result = "None", !.releases = r.releases,
                         !.raised = r.raised]
        /\ UNCHANGED <<corevars, mx, det, up, file_frames>>

\* A call of get_frame.
VPGetFrame ==
    \E rd \in [1..StreamLen -> ReadOutcomes] :
        LET r == GetFrame(vp, rd)
        IN  /\ vp' = r.vp
            /\ vp_call' = [VPNoCall EXCEPT !.op = "get", !.prev = vp,
                             !.result = r.result, !.frame = r.frame,
                             !.reads = r.reads, !.raised = r.raised, !.rd = rd]
            /\ UNCHANGED <<corevars, mx, det, up, file_frames>>

(* ------------------------------ detectors ------------------------------- *)

\* Width and height of the frame given to the detectors.
FrameW == 6
FrameH == 5

\* Relative coordinates are multiples of 1 / RelDen, up to MaxRel / RelDen.
RelDen == 4
MaxRel == 6

\* confidence_threshold = 0.3 and the literal of detect_persons, in tenths.
ConfidenceThresholdTenths == 3

\* Confidence scores the models report, in tenths.
Scores == {3, 5}

\* No detector called.
DetIdle ==
    [frame |-> "None", model |-> "ok", n |-> 0, score |-> 5, xmin |-> 0, ymin |-> 0,
     bw |-> 0, bh |-> 0, which |-> "none", result |-> <<>>, raised |-> FALSE,
     done |-> FALSE]

\* The calls the detectors can get: a missing or a valid frame; a model that
\* raises or reports n boxes of some score, position and size.
DetInputs ==
    [frame : {"None", "valid"}, model : {"raise", "ok"}, n : 0..1, score : Scores,
     xmin : (-2)..MaxRel, ymin : (-2)..MaxRel, bw : 0..MaxRel, bh : 0..MaxRel,
     which : {"none"}, result : {<<>>}, raised : {FALSE}, done : {FALSE}]

\* int(n / d) of Python: truncation toward zero.
Trunc(n, d) == IF n >= 0 THEN n \div d ELSE -((-n) \div d)

Max(a, b) == IF a >= b THEN a ELSE b

Min(a, b) == IF a <= b THEN a ELSE b

\* The bbox detect_faces builds from the relative box of the model.
FaceBBox(d) ==
    LET x0     == Trunc(d.xmin * FrameW, RelDen)
        y0     == Trunc(d.ymin * FrameH, RelDen)
        width  == Trunc(d.bw * FrameW, RelDen)
        height == Trunc(d.bh * FrameH, RelDen)
        x      == Max(0, x0)
        y      == Max(0, y0)
        x2     == Min(x + width, FrameW)
        y2     == Min(y + height, FrameH)
    IN  <<x, y, x2, y2>>

\* [int(x) for x in box] of detect_persons, the box being in pixels.
PersonBBox(d) ==
    <<Trunc(d.xmin * FrameW, RelDen), Trunc(d.ymin * FrameH, RelDen),
      Trunc((d.xmin + d.bw) * FrameW, RelDen), Trunc((d.ymin + d.bh) * FrameH, RelDen)>>

\* A handler that lets the exception out.
FaceDetectReraises == [result |-> <<>>, raised |-> TRUE]

\* except Exception of detect_faces: return []
FaceDetectExcept == [result |-> <<>>, raised |-> FALSE]

\* except Exception of detect_persons: return []
PersonDetectExcept == [result |-> <<>>, raised |-> FALSE]

\* detect_faces(frame)
DetectFaces(d) ==
    IF d.frame = "None" THEN [result |-> <<>>, raised |-> FALSE]
    ELSE IF d.model = "raise" THEN FaceDetectExcept
    ELSE IF d.n = 0 THEN [result |-> <<>>, raised |-> FALSE]
    ELSE IF d.score > ConfidenceThresholdTenths
    THEN [result |-> <<[bbox |-> FaceBBox(d), confidence |-> d.score, class |-> "face"]>>,
          raised |-> FALSE]
    ELSE [result |-> <<>>, raised |-> FALSE]

\* detect_persons(frame)
DetectPersons(d) ==
    IF d.frame = "None" THEN [result |-> <<>>, raised |-> FALSE]
    ELSE IF d.model = "raise" THEN PersonDetectExcept
    ELSE IF d.n = 0 THEN [result |-> <<>>, raised |-> FALSE]
    ELSE IF d.score > ConfidenceThresholdTenths
    THEN [result |-> <<[bbox |-> PersonBBox(d), confidence |-> d.score,
                        class |-> "person"]>>,
          raised |-> FALSE]
    ELSE [result |-> <<>>, raised |-> FALSE]

\* A call of detect_faces.
CallDetectFaces ==
    /\ ~det.done
    /\ det' = [det EXCEPT !.which = "faces", !.result = DetectFaces(det).result,
                          !.raised = DetectFaces(det).raised, !.done = TRUE]
    /\ UNCHANGED <<corevars, mx, vp, vp_call, up, file_frames>>

\* A call of detect_persons.
CallDetectPersons ==
    /\ ~det.done
    /\ det' = [det EXCEPT !.which = "persons", !.result = DetectPersons(det).result,
                          !.raised = DetectPersons(det).raised, !.done = TRUE]
    /\ UNCHANGED <<corevars, mx, vp, vp_call, up, file_frames>>

(* --------------------------- upload handlers ---------------------------- *)

\* The most dot-separated parts of an uploaded file name.
MaxSegments == 3

\* ALLOWED_EXTENSIONS
ALLOWED_EXTENSIONS ==
    [video |-> {"mp4", "avi", "mov", "mkv", "webm"},
     image |-> {"jpg", "jpeg", "png", "bmp", "webp"}]

\* The dot-free parts file names are made of.
Segments == {"", "photo", "jpg", "JPG", "webp", "mp4", "MKV", "exe"}

\* A file name is its dot-free parts in order: "photo.JPG" is <<"photo", "JPG">>,
\* "photo" is <<"photo">>, the empty name is <<"">>.
Filenames == UNION {[1..n -> Segments] : n \in 1..MaxSegments}

\* str.lower() on a part.
Lower(seg) ==
    CASE seg = "JPG" -> "jpg"
      [] seg = "MKV" -> "mkv"
      [] OTHER -> seg

\* An extension check that takes the part after the first dot.
allowed_file_first_dot(filename, file_type) ==
    /\ Len(filename) >= 2
    /\ Lower(filename[2]) \in ALLOWED_EXTENSIONS[file_type]

\* '.' in filename and filename.rsplit('.', 1)[1].lower() in
\* ALLOWED_EXTENSIONS[file_type]
allowed_file(filename, file_type) ==
    /\ Len(filename) >= 2
    /\ Lower(filename[Len(filename)]) \in ALLOWED_EXTENSIONS[file_type]

\* No upload request handled.
UpIdle ==
    [kind |-> "none", has_file |-> FALSE, filename |-> <<"">>, save_ok |-> FALSE,
     models_loaded |-> FALSE, init_ok |-> FALSE, proc_ok |-> FALSE,
     success |-> FALSE, message |-> "", saved |-> FALSE, init_called |-> FALSE,
     process_called |-> FALSE, done |-> FALSE]

\* The requests: with or without a file part, its file name, whether
\* file.save works, whether the models are loaded, what initialize_models and
\* process_image return.
UpRequests ==
    [kind : {"none"}, has_file : BOOLEAN, filename : Filenames, save_ok : BOOLEAN,
     models_loaded : BOOLEAN, init_ok : BOOLEAN, proc_ok : BOOLEAN,
     success : {FALSE}, message : {""}, saved : {FALSE}, init_called : {FALSE},
     process_called : {FALSE}, done : {FALSE}]

\* The handler returns success False with a message, having done so far what
\* r records.
UpReject(r, msg) == [r EXCEPT !.success = FALSE, !.message = msg, !.done = TRUE]

\* upload_image / upload_video up to the model check: the three early
\* returns, file.save (an exception there is answered by the handler), and
\* initialize_models() when the models are not loaded.
UploadCommon(r, file_type, invalid_msg) ==
    IF ~r.has_file THEN UpReject(r, "No file uploaded")
    ELSE IF r.filename = <<"">> THEN UpReject(r, "No file selected")
    ELSE IF ~allowed_file(r.filename, file_type) THEN UpReject(r, invalid_msg)
    ELSE IF ~r.save_ok THEN UpReject(r, "exception")
    ELSE LET s == [r EXCEPT !.saved = TRUE]
         IN  IF s.models_loaded THEN s
             ELSE IF ~s.init_ok
             THEN UpReject([s EXCEPT !.init_called = TRUE],
                           "Failed to initialize AI models")
             ELSE [s EXCEPT !.init_called = TRUE]

\* upload_image()
upload_image(r) ==
    LET s == UploadCommon([r EXCEPT !.kind = "image"], "image",
                          "Invalid file type. Use JPG, PNG, BMP, or WEBP")
    IN  IF s.done THEN s
        ELSE [s EXCEPT !.process_called = TRUE, !.success = s.proc_ok,
                       !.message = IF s.proc_ok THEN "Image processed successfully"
                                   ELSE "process_image failed",
                       !.done = TRUE]

\* upload_video()
upload_video(r) ==
    LET s == UploadCommon([r EXCEPT !.kind = "video"], "video",
                          "Invalid file type. Use MP4, AVI, MOV, MKV, or WEBM")
    IN  IF s.done THEN s
        ELSE [s EXCEPT !.success = TRUE,
                       !.message = "Video uploaded successfully - processing will start",
                       !.done = TRUE]

\* A POST to /upload_image.
CallUploadImage ==
    /\ ~up.done
    /\ up' = upload_image(up)
    /\ UNCHANGED <<corevars, mx, vp, vp_call, det, file_frames>>

\* A POST to /upload_video.
CallUploadVideo ==
    /\ ~up.done
    /\ up' = upload_video(up)
    /\ UNCHANGED <<corevars, mx, vp, vp_call, det, file_frames>>

(* ------------------------- metrics on their own ------------------------- *)

\* The largest detection count given to the aggregator.
MaxCount == 12

\* No snapshot asked for.
MxIdle ==
    [p |-> 0, f |-> 0, kind |-> "Ready", snap |-> InitialStats, done |-> FALSE]

\* The body of self.stats.update(...) for len(person_detections) = mx.p and
\* len(face_detections) = mx.f, in process_image or in process_video.
BuildSnapshot ==
    /\ ~mx.done
    /\ mx' = [mx EXCEPT !.snap = Snapshot(mx.p, mx.f, mx.kind), !.done = TRUE]
    /\ UNCHANGED <<corevars, vp, vp_call, det, up, file_frames>>

MetricsInit ==
    /\ SystemInit
    /\ mx \in [p : 0..MaxCount, f : 0..MaxCount,
                kind : {"Image Processed", "Processing Video"},
                snap : {InitialStats}, done : {FALSE}]
    /\ vp = VPNew
    /\ vp_call = VPNoCall
    /\ det = DetIdle
    /\ up = UpIdle
    /\ file_frames = MaxFrames

MetricsNext == BuildSnapshot

MetricsSpec == MetricsInit /\ [][MetricsNext]_vars

(* ----------------------- VideoProcessor on its own ---------------------- *)

VPInit ==
    /\ SystemInit
    /\ mx = MxIdle
    /\ vp = VPNew
    /\ vp_call = VPNoCall
    /\ det = DetIdle
    /\ up = UpIdle
    /\ file_frames = MaxFrames

VPNext ==
    \/ VPStartCapture
    \/ VPStopCapture
    \/ VPGetFrame

VPSpec == VPInit /\ [][VPNext]_vars

(* ------------------------ detectors on their own ------------------------ *)

DetInit ==
    /\ SystemInit
    /\ mx = MxIdle
    /\ vp = VPNew
    /\ vp_call = VPNoCall
    /\ det \in DetInputs
    /\ up = UpIdle
    /\ file_frames = MaxFrames

DetNext ==
    \/ CallDetectFaces
    \/ CallDetectPersons

DetSpec == DetInit /\ [][DetNext]_vars

(* ---------------------- upload handlers on their own --------------------- *)

UploadInit ==
    /\ SystemInit
    /\ mx = MxIdle
    /\ vp = VPNew
    /\ vp_call = VPNoCall
    /\ det = DetIdle
    /\ up \in UpRequests
    /\ file_frames = MaxFrames

UploadNext ==
    \/ CallUploadImage
    \/ CallUploadVideo

UploadSpec == UploadInit /\ [][UploadNext]_vars

(* --------------------------- one run of a video -------------------------- *)

\* A video that holds one frame more than two detection cycles need.
LongVideo == 2 * DetectEvery + 1

\* The server as started, given a video of LongVideo frames.
RunInit ==
    /\ SystemInit
    /\ mx = MxIdle
    /\ vp = VPNew
    /\ vp_call = VPNoCall
    /\ det = DetIdle
    /\ up = UpIdle
    /\ file_frames = LongVideo

\* One client: it has the models loaded, starts process_video on the video,
\* may upload images and may stop the run.
RunNext ==
    /\ \/ CallInitializeModels(1)
       \/ InitEnter(1)
       \/ InitImport(1)
       \/ InitVideoProcessor(1)
       \/ InitYolo(1)
       \/ InitFace(1)
       \/ InitReady(1)
       \/ InitCommit(1)
       \/ InitFinish(1)
       \/ ProcessImage
       \/ StartVideoProcessing(1)
       \/ PVBegin(1)
       \/ PVSetMonitoring(1)
       \/ PVWhile(1)
       \/ PVRead(1)
       \/ PVDetect(1)
       \/ PVEmit(1)
       \/ PVRelease(1)
       \/ StopProcessing
       \/ Return(1)
    /\ UNCHANGED auxvars

RunSpec == RunInit /\ [][RunNext]_vars

(* ------------------------------ the server ------------------------------ *)

Init ==
    /\ SystemInit
    /\ mx = MxIdle
    /\ vp = VPNew
    /\ vp_call = VPNoCall
    /\ det = DetIdle
    /\ up = UpIdle
    /\ file_frames = MaxFrames

Next == SystemNext /\ UNCHANGED auxvars

Spec == Init /\ [][Next]_vars

(* ------------------------------- claims --------------------------------- *)

\* The threads that are inside the while-loop of process_video.
LoopThreads == {t \in Threads : pc[t] \in LoopPcs}

\* The callers that are inside the step sequence of initialize_models.
LoadingThreads == {t \in Threads : pc[t] \in InitSeqPcs}

\* No other thread has a process_video run in progress.
NoOtherRun(t) == \A u \in Threads \ {t} : pc[u] \notin VideoPcs

\* C1: at most one processing loop is active at any time; a second
\* start_video_processing request never leads to a second thread inside
\* the process_video loop.
C1_AtMostOneLoop == Cardinality(LoopThreads) <= 1

\* C2: once stop_processing() has been called after a run was started, the
\* run's next evaluation of the loop condition leaves the loop: the run never
\* enters another iteration (whether the stop came before or after the
\* thread set is_monitoring).
C2_StopEndsRun ==
    [][\A t \in Threads :
         (stopped[t] /\ pc[t] = "pv_while") => pc'[t] \in {"pv_while", "pv_release"}]_vars

\* C3: when stop_processing returns, the snapshot is the reset one:
\* person_count 0, face_count 0, crowd_density EMPTY, alert_level NORMAL.
C3_StopResetsSnapshot ==
    [][StopProcessing =>
         /\ stats'.person_count = 0
         /\ stats'.face_count = 0
         /\ stats'.crowd_density = "EMPTY"
         /\ stats'.alert_level = "NORMAL"]_vars

\* C4: stop_processing() called while is_monitoring is false changes none of
\* is_monitoring, models_loaded, is_initializing, stats and the detector
\* handles; every stop leaves is_monitoring false, so a stop that follows a
\* stop is such a call and adds nothing to the first.
C4_StopIdleNoEffect ==
    [][StopProcessing =>
         /\ is_monitoring' = FALSE
         /\ (~is_monitoring => UNCHANGED sysvars)]_vars

\* C4 witness: a stop was called while nothing was running, with models
\* loaded and a snapshot of an earlier image that the stop left in place.
C4_Witness ==
    /\ stop_was = "idle"
    /\ models_loaded
    /\ stats.system_status = "Image Processed"
    /\ stats.person_count > 0

\* C5 (the case of an error raised inside the loop, no other run alive): a
\* process_video call that returns success False carries a message and leaves
\* is_monitoring false and neither of its handles open.
C5_FailureLeavesIdle ==
    [][\A t \in Threads :
         (/\ pc[t] \in LoopPcs
          /\ pc'[t] = "pv_done"
          /\ retval'[t] = "False"
          /\ NoOtherRun(t))
         => (/\ message'[t] # ""
             /\ ~is_monitoring'
             /\ cap'[t] # "open"
             /\ out'[t] # "open")]_vars

\* C6, state part: at most one caller is inside the step sequence, and while
\* models_loaded holds no caller is at the import or at a construction step.
C6_Serialized ==
    /\ Cardinality(LoadingThreads) <= 1
    /\ models_loaded => \A t \in Threads : pc[t] \notin ConstructPcs \cup {"init_import"}

\* C6: concurrent initialize_models() callers are serialized, and a call that
\* enters after a successful load returns True at once and constructs nothing.
C6_LoadOnce ==
    /\ []C6_Serialized
    /\ [][\A t \in Threads :
            (models_loaded /\ pc[t] = "init_wait" /\ pc'[t] # "init_wait")
            => (/\ pc'[t] = "init_done"
                /\ retval'[t] = "True"
                /\ UNCHANGED <<video_processor, yolo_detector, face_detector>>)]_vars

\* C6 witness: one caller ran the whole sequence (it emitted 'ready') and the
\* other, concurrent, caller returned True without running it.
C6_Witness ==
    \E t \in Threads, u \in Threads :
      /\ t # u
      /\ pc[t] = "init_done" /\ retval[t] = "True" /\ status_evt[t] = "ready"
      /\ pc[u] = "init_done" /\ retval[u] = "True" /\ status_evt[u] = "none"

\* C7: a caller of initialize_models() that arrives while another caller is
\* loading can return (False) right away: it is not held up by the loader.
C7_NoBlocking ==
    \A t \in Threads :
      (pc[t] = "init_wait" /\ LoadingThreads # {})
      => ENABLED (InitEnter(t) /\ retval'[t] = "False")

\* C8: when a run of the step sequence fails (returns False), is_initializing
\* and models_loaded are both false, so that a later call tries again.
C8_FailedLoadRetriable ==
    [][\A t \in Threads :
         (pc[t] \in InitSeqPcs /\ pc'[t] = "init_done" /\ retval'[t] = "False")
         => (~is_initializing' /\ ~models_loaded')]_vars

\* C9: a run of the step sequence that fails has emitted a system_status
\* 'error' event by the time it returns False.
C9_FailureEmitsError ==
    [][\A t \in Threads :
         (pc[t] \in InitSeqPcs /\ pc'[t] = "init_done" /\ retval'[t] = "False")
         => status_evt'[t] = "error"]_vars

C11_DetectionEveryTenth ==
    [][\A t \in Threads :
         /\ (pc[t] = "pv_read" /\ pc'[t] # "pv_read" /\ ret'[t])
            => (/\ frame_num'[t] = frame_num[t] + 1
                /\ (pc'[t] = "pv_detect") <=> (frame_num'[t] % 10 = 0))
         /\ (pc[t] = "pv_read" /\ pc'[t] # "pv_read" /\ ~ret'[t])
            => (/\ frame_num'[t] = frame_num[t]
                /\ pc'[t] # "pv_detect"
                /\ stats' = stats)
         /\ (pc[t] = "pv_detect" /\ pc'[t] # "pv_detect")
            => stats' = Snapshot(detections'[t][1], detections'[t][2],
                                 "Processing Video")]_vars

\* C12: every detection_update a video loop has emitted is the snapshot that
\* loop built in the same cycle, from its own detections, with system_status
\* 'Processing Video'.
C12_UpdateIsOwnSnapshot ==
    \A t \in Threads :
      detection_update[t] # NoUpdate
      => detection_update[t] = Snapshot(detections[t][1], detections[t][2],
                                        "Processing Video")

\* Rank of a density tier and of an alert level.
DensityRank(tier) ==
    CASE tier = "EMPTY" -> 0 [] tier = "LOW" -> 1 [] tier = "MEDIUM" -> 2 [] tier = "HIGH" -> 3

AlertRank(level) ==
    CASE level = "NORMAL" -> 0 [] level = "CAUTION" -> 1 [] level = "ALERT" -> 2

\* C13: a snapshot written from N person detections and M face detections
\* reports person_count = N and face_count = M, and its crowd_density and
\* alert_level are the tiers of exactly those N and M.
C13_SnapshotFromCounts ==
    mx.done =>
      /\ mx.snap.person_count = mx.p
      /\ mx.snap.face_count = mx.f
      /\ mx.snap.crowd_density = calculate_crowd_density(mx.p)
      /\ mx.snap.alert_level = calculate_alert_level(mx.p, mx.f)
      /\ mx.snap.system_status = mx.kind

\* C13 witness: a snapshot built from 6 persons and 1 face.
C13_Witness ==
    /\ mx.done
    /\ mx.p = 6
    /\ mx.f = 1
    /\ mx.snap.person_count = 6
    /\ mx.snap.crowd_density = "HIGH"

\* C14: the density tier is that of the default table (0 EMPTY, 1..2 LOW,
\* 3..5 MEDIUM, 6 and above HIGH), so 0,1,2,3,5,6,11 give EMPTY, LOW, LOW,
\* MEDIUM, MEDIUM, HIGH, HIGH, and the rank never decreases with the count.
C14_DensityTable ==
    mx.done =>
      /\ mx.snap.crowd_density =
           (CASE mx.p = 0 -> "EMPTY"
              [] mx.p \in 1..2 -> "LOW"
              [] mx.p \in 3..5 -> "MEDIUM"
              [] OTHER -> "HIGH")
      /\ (mx.p \in {0}) => mx.snap.crowd_density = "EMPTY"
      /\ (mx.p \in {1, 2}) => mx.snap.crowd_density = "LOW"
      /\ (mx.p \in {3, 5}) => mx.snap.crowd_density = "MEDIUM"
      /\ (mx.p \in {6, 11}) => mx.snap.crowd_density = "HIGH"
      /\ \A q \in 0..mx.p :
           DensityRank(calculate_crowd_density(q)) <= DensityRank(mx.snap.crowd_density)

\* C14 witness: the tier of 11 persons was computed.
C14_Witness == mx.done /\ mx.p = 11 /\ mx.snap.crowd_density = "HIGH"

\* C15: the alert level is NORMAL when 10*person_count + 3*face_count <= 30,
\* CAUTION when it is <= 60 and ALERT otherwise; (3,0) gives NORMAL and (5,5)
\* ALERT; the rank never decreases when either count grows.
C15_AlertTable ==
    mx.done =>
      /\ mx.snap.alert_level =
           (IF 10 * mx.p + 3 * mx.f <= 30 THEN "NORMAL"
            ELSE IF 10 * mx.p + 3 * mx.f <= 60 THEN "CAUTION" ELSE "ALERT")
      /\ (mx.p = 3 /\ mx.f = 0) => mx.snap.alert_level = "NORMAL"
      /\ (mx.p = 5 /\ mx.f = 5) => mx.snap.alert_level = "ALERT"
      /\ \A q \in 0..mx.p :
           AlertRank(calculate_alert_level(q, mx.f)) <= AlertRank(mx.snap.alert_level)
      /\ \A g \in 0..mx.f :
           AlertRank(calculate_alert_level(mx.p, g)) <= AlertRank(mx.snap.alert_level)

\* C15 witness: the level of 5 persons and 5 faces was computed.
C15_Witness == mx.done /\ mx.p = 5 /\ mx.f = 5 /\ mx.snap.alert_level = "ALERT"

\* The reads get_frame consumed, as outcomes.
ReadsMade == {vp_call.rd[i] : i \in 1..vp_call.reads}

\* C16: get_frame never raises; not running or without an open handle it
\* returns None without a read; otherwise it makes one read and at most 3
\* retries, returns a frame iff one of the reads it made succeeded, and
\* current_frame changes only when a frame is returned.
C16_GetFrame ==
    vp_call.op = "get" =>
      /\ ~vp_call.raised
      /\ vp_call.result \in {"None", "frame"}
      /\ (~vp_call.prev.is_running \/ vp_call.prev.cap # "open") =>
            (vp_call.result = "None" /\ vp_call.reads = 0)
      /\ (vp_call.prev.is_running /\ vp_call.prev.cap = "open") =>
            vp_call.reads \in 1..4
      /\ (vp_call.result = "frame") <=> (\E o \in ReadsMade : ReadOk(o))
      /\ (vp_call.result = "frame") =>
            /\ ReadOk(vp_call.rd[vp_call.reads])
            /\ vp_call.frame = vp_call.rd[vp_call.reads].frame
            /\ vp.current_frame = vp_call.frame
      /\ (vp_call.result = "None") => vp.current_frame = vp_call.prev.current_frame
      /\ vp.cap = vp_call.prev.cap
      /\ vp.is_running = vp_call.prev.is_running

\* C16 witness: a frame was held, three reads failed and the third retry
\* delivered another frame, which was returned and stored.
C16_Witness ==
    /\ vp_call.op = "get"
    /\ vp_call.reads = 4
    /\ vp_call.result = "frame"
    /\ vp_call.prev.current_frame = 1
    /\ vp.current_frame = 2

\* C17: start_capture returns True only if a backend opened, the first in
\* the order tried, and one of at most 10 test reads was valid, and then
\* is_running and frame_ready are true; if no backend opens or all 10 test
\* reads fail it returns False, the handle released and None, both flags
\* false.
C17_StartCapture ==
    vp_call.op = "start" =>
      LET firsts == {i \in 1..(NumBackends + 1) :
                        vp_call.opens[i] /\ \A j \in 1..(i - 1) : ~vp_call.opens[j]}
      IN
      /\ ~vp_call.raised
      /\ vp_call.result \in {"True", "False"}
      /\ (vp_call.result = "True") =>
            /\ vp_call.backend \in firsts
            /\ vp_call.tests \in 1..10
            /\ vp_call.tests = vp_call.good
            /\ vp.is_running
            /\ vp.frame_ready
            /\ vp.cap = "open"
      /\ (firsts = {} \/ vp_call.good > 10) => vp_call.result = "False"
      /\ (vp_call.result = "False") =>
            /\ vp.cap = "none"
            /\ ~vp.is_running
            /\ ~vp.frame_ready
            /\ vp_call.releases >= (IF firsts = {} THEN NumBackends + 1 ELSE 1)

\* C17 witness: on a running processor the list fails, the plain capture
\* opens, and no test read is valid: False, everything cleared.
C17_Witness ==
    /\ vp_call.op = "start"
    /\ vp_call.prev.is_running
    /\ vp_call.backend = NumBackends + 1
    /\ vp_call.tests = 10
    /\ vp_call.result = "False"
    /\ vp.cap = "none"

\* C18: after any stop_capture is_running and frame_ready are false and the
\* handle is None; on a stopped or never started processor it changes
\* nothing, raises nothing and releases nothing; only a held handle is
\* released, once, and a further stop would release nothing.
C18_StopCapture ==
    vp_call.op = "stop" =>
      /\ ~vp_call.raised
      /\ ~vp.is_running
      /\ ~vp.frame_ready
      /\ vp.cap = "none"
      /\ vp.current_frame = vp_call.prev.current_frame
      /\ vp_call.releases = (IF vp_call.prev.cap = "open" THEN 1 ELSE 0)
      /\ (vp_call.prev.cap = "none" /\ ~vp_call.prev.is_running
            /\ ~vp_call.prev.frame_ready) =>
            (vp = vp_call.prev /\ vp_call.releases = 0)
      /\ StopCapture(vp).vp = vp
      /\ StopCapture(vp).releases = 0

\* C18 witness: stop_capture called on a processor that is already stopped
\* after having run.
C18_Witness ==
    /\ vp_call.op = "stop"
    /\ vp_call.prev.cap = "none"
    /\ vp_call.prev.current_frame # 0
    /\ vp_call.releases = 0
    /\ vp = vp_call.prev

\* C19: detect_persons and detect_faces never raise; for a None frame, for a
\* failure inside the model call and for a valid frame without detections
\* they return the empty list.
C19_DetectorsNeverRaise ==
    det.done =>
      /\ ~det.raised
      /\ (det.frame = "None") => det.result = <<>>
      /\ (det.model = "raise") => det.result = <<>>
      /\ (det.n = 0) => det.result = <<>>
      /\ Len(det.result) <= det.n

\* C19 witness: detect_faces got a valid frame, its model raised, and the
\* empty list came back.
C19_Witness ==
    /\ det.done
    /\ det.which = "faces"
    /\ det.frame = "valid"
    /\ det.model = "raise"
    /\ det.n = 1
    /\ det.result = <<>>

\* C20: every detection of detect_faces has its bbox inside the frame,
\* 0 <= x1, 0 <= y1, x2 <= w, y2 <= h, with x1 < x2 and y1 < y2.
C20_FaceBoxInFrame ==
    (det.done /\ det.which = "faces") =>
      \A i \in 1..Len(det.result) :
        LET b == det.result[i].bbox
        IN  /\ 0 <= b[1]
            /\ 0 <= b[2]
            /\ b[3] <= FrameW
            /\ b[4] <= FrameH
            /\ b[1] < b[3]
            /\ b[2] < b[4]

\* C21: for a file name without a dot, or whose part after the last dot,
\* lower-cased, is not in the allow-list of the handler's media type,
\* upload_image / upload_video return success false and neither save the
\* file, nor initialize the models, nor call process_image.
C21_ExtensionCheckedFirst ==
    (up.done /\ up.has_file) =>
      LET n    == Len(up.filename)
          last == up.filename[n]
          ext  == IF last = "JPG" THEN "jpg" ELSE IF last = "MKV" THEN "mkv" ELSE last
          list == IF up.kind = "image" THEN {"jpg", "jpeg", "png", "bmp", "webp"}
                  ELSE {"mp4", "avi", "mov", "mkv", "webm"}
      IN  (n = 1 \/ ext \notin list) =>
            /\ ~up.success
            /\ ~up.saved
            /\ ~up.init_called
            /\ ~up.process_called

\* C21 witness: upload_image got "photo.jpg.exe", with the models not loaded,
\* and answered success false without saving, loading or processing.
C21_Witness ==
    /\ up.done
    /\ up.kind = "image"
    /\ up.has_file
    /\ up.filename = <<"photo", "jpg", "exe">>
    /\ ~up.models_loaded
    /\ ~up.success
    /\ ~up.saved
    /\ ~up.init_called

\* C22: a loading_progress event for step k is emitted after step k has
\* completed, with progress = floor(100 * step / total): once the event of
\* step 2, 3, 4 is out the video processor, the person detector, the face
\* detector is constructed, and progress 100 is out only when all are.
C22_ProgressAfterStep ==
    \A t \in Threads :
      LET e == loading_progress[t]
      IN  e # NoLoading =>
            /\ e.step \in 1..e.total
            /\ e.progress = (100 * e.step) \div e.total
            /\ e.step >= 2 => video_processor
            /\ e.step >= 3 => yolo_detector
            /\ e.step >= 4 => face_detector
            /\ e.progress = 100 => (video_processor /\ yolo_detector /\ face_detector)

\* C23: in every state in which a system_status 'ready' event has been
\* emitted, models_loaded is true and is_initializing is false.
C23_ReadyMeansLoaded ==
    \A t \in Threads :
      status_evt[t] = "ready" => (models_loaded /\ ~is_initializing)

\* C24: after initialize_models() has failed at some step, video_processor,
\* yolo_detector and face_detector are all unset again.
C24_FailureDiscardsResources ==
    \A t \in Threads :
      (pc[t] = "init_done" /\ retval[t] = "False" /\ loading_progress[t] # NoLoading)
      => (~video_processor /\ ~yolo_detector /\ ~face_detector)

\* C25: every frame written after a detection cycle of the run carries the
\* boxes of the most recent detection cycle.
C25_StaleBoxesDrawn ==
    \A t \in Threads :
      (pc[t] = "pv_while" /\ frame_num[t] >= DetectEvery)
      => drawn[t] = detections[t]

\* C26: two consecutive detection_update events of one run are at least one
\* second (1000 ms) apart.
C26_PublishThrottled ==
    \A t \in Threads : gap[t] # -1 => gap[t] >= 1000

\* C27: when process_video ends by itself on a failed read and returns
\* success, is_monitoring is false and the capture and the writer are
\* released.
C27_EndLeavesIdle ==
    \A t \in Threads :
      (pc[t] = "pv_done" /\ retval[t] = "True" /\ ~stopped[t])
      => (~is_monitoring /\ cap[t] = "released" /\ out[t] = "released")

\* C28: in every reachable state is_monitoring implies models_loaded,
\* models_loaded implies that the three components are constructed,
\* models_loaded and is_initializing are never both true; and models_loaded
\* never goes from true back to false.
C28_LoaderInvariants ==
    /\ [](/\ is_monitoring => models_loaded
          /\ models_loaded => (video_processor /\ yolo_detector /\ face_detector)
          /\ ~(models_loaded /\ is_initializing))
    /\ [][models_loaded => models_loaded']_vars

\* C29: every video_progress event has 0 <= progress <= 100 and
\* frame <= total_frames, and computing it never fails.
C29_ProgressInRange ==
    \A t \in Threads :
      /\ message[t] # "division by zero"
      /\ video_progress[t] # NoProgress =>
           /\ video_progress[t].progress \in 0..100
           /\ video_progress[t].frame <= video_progress[t].total_frames

\* C30: when process_video returns success, the total_frames it reports is
\* the number of frames its loop read and wrote.
C30_TotalFramesIsFramesRead ==
    \A t \in Threads :
      (pc[t] = "pv_done" /\ retval[t] = "True")
      => total_frames[t] = frame_num[t]

=============================================================================
